---------------------------- MODULE Spec2Model ----------------------------
(***************************************************************************)
(* A model of the nyxtom.dev blog server: the markdown loader              *)
(* (src/post.rs), the template registry (src/registry.rs), the routes      *)
(* (src/routes.rs), the error middleware (src/errors.rs) and the process   *)
(* bootstrap (src/main.rs).                                                *)
(*                                                                         *)
(* A Rust &str is a sequence of one-character strings, so that prefix      *)
(* tests, splits, line iteration and trimming are computed character by    *)
(* character as the standard library computes them.                        *)
(***************************************************************************)
EXTENDS Integers, Sequences, FiniteSets, TLC

(***************************************************************************)
(* Bounds of the model.                                                    *)
(***************************************************************************)
\* Pieces of front-matter text (lines, mostly) in a generated file's block.
MaxLines == 2
\* Worker threads of the executor, each with its own thread-local REGISTRY.
NumThreads == 2
\* Requests in flight at once.
MaxConns == 1

(***************************************************************************)
(* String literals of the source.                                          *)
(***************************************************************************)
\* "---\n", post.rs lines 33 and 34
Delim == <<"-", "-", "-", "\n">>
\* ".md", post.rs line 24
MdSuffix == <<".", "m", "d">>
\* ":", post.rs line 40
Colon == <<":">>
\* the match arms of post.rs lines 43 to 45
KeyTitle == <<"t", "i", "t", "l", "e">>
KeyDescription == <<"d", "e", "s", "c", "r", "i", "p", "t", "i", "o", "n">>
KeySlug == <<"s", "l", "u", "g">>
\* char::is_whitespace, restricted to the characters the inputs use
WhiteSpace == {" ", "\t", "\n", "\r"}

\* Option<T>
None == [some |-> FALSE, val |-> <<>>]
Some(x) == [some |-> TRUE, val |-> x]

(***************************************************************************)
(* str operations of the standard library, as post.rs uses them.           *)
(***************************************************************************)
RECURSIVE Flatten(_)
Flatten(ss) == IF ss = <<>> THEN <<>> ELSE Head(ss) \o Flatten(Tail(ss))

\* str::starts_with
starts_with_dashes(s, p) ==
    Len(s) >= Len(p) - 1 /\ SubSeq(s, 1, Len(p) - 1) = SubSeq(p, 1, Len(p) - 1)
starts_with(s, p) == Len(s) >= Len(p) /\ SubSeq(s, 1, Len(p)) = p

\* str::ends_with
ends_with(s, p) ==
    Len(s) >= Len(p) /\ SubSeq(s, Len(s) - Len(p) + 1, Len(s)) = p

\* str::strip_suffix: Some(prefix) or None
strip_suffix_ext(s, p) ==
    IF ends_with(s, p) THEN Some(SubSeq(s, 1, Len(s) - Len(p) + 1)) ELSE None
strip_suffix(s, p) ==
    IF ends_with(s, p) THEN Some(SubSeq(s, 1, Len(s) - Len(p))) ELSE None

\* str::find: the index of the first occurrence of p in s, 0 when there is none
find(s, p) ==
    LET hits == {i \in 1..(Len(s) - Len(p) + 1) : SubSeq(s, i, i + Len(p) - 1) = p}
    IN  IF hits = {} THEN 0 ELSE CHOOSE i \in hits : \A j \in hits : i <= j

\* str::split, every occurrence of p a boundary
RECURSIVE split(_, _)
split(s, p) ==
    LET i == find(s, p)
    IN  IF i = 0 THEN <<s>>
        ELSE <<SubSeq(s, 1, i - 1)>> \o split(SubSeq(s, i + Len(p), Len(s)), p)

\* str::splitn: at most n items, the last one the unsplit remainder
RECURSIVE splitn_rec(_, _, _)
splitn_rec(n, s, p) ==
    IF n = 0 THEN <<>>
    ELSE IF n = 1 THEN <<s>>
    ELSE LET i == find(s, p)
         IN  IF i = 0 THEN <<s>>
             ELSE <<SubSeq(s, 1, i - 1)>>
                    \o splitn_rec(n - 1, SubSeq(s, i + Len(p), Len(s)), p)
splitn_unbounded(n, s, p) == split(s, p)
splitn(n, s, p) == splitn_rec(n, s, p)

\* Iterator::skip
skip(items, n) == SubSeq(items, n + 1, Len(items))

\* str::lines: split at "\n", the final empty piece dropped, and a "\r" before
\* the "\n" removed
strip_cr(l) ==
    IF Len(l) > 0 /\ l[Len(l)] = "\r" THEN SubSeq(l, 1, Len(l) - 1) ELSE l
RECURSIVE lines(_)
lines(s) ==
    IF s = <<>> THEN <<>>
    ELSE LET i == find(s, <<"\n">>)
         IN  IF i = 0 THEN <<s>>
             ELSE <<strip_cr(SubSeq(s, 1, i - 1))>> \o lines(SubSeq(s, i + 1, Len(s)))

\* str::split_once: Some((before, after)) at the first occurrence, or None
split_once(s, p) ==
    LET i == find(s, p)
    IN  IF i = 0 THEN None
        ELSE Some([k |-> SubSeq(s, 1, i - 1), v |-> SubSeq(s, i + Len(p), Len(s))])

\* str::trim
RECURSIVE trim_start(_)
trim_start(s) ==
    IF s # <<>> /\ Head(s) \in WhiteSpace THEN trim_start(Tail(s)) ELSE s
RECURSIVE trim_end(_)
trim_end(s) ==
    IF s # <<>> /\ s[Len(s)] \in WhiteSpace
    THEN trim_end(SubSeq(s, 1, Len(s) - 1)) ELSE s
trim(s) == trim_end(trim_start(s))

(***************************************************************************)
(* post.rs: the Post record and Post::from_file.                           *)
(***************************************************************************)
\* Post::new: every field the empty string
Post_new ==
    [slug |-> <<>>, url |-> <<>>, title |-> <<>>, description |-> <<>>,
     content |-> <<>>]

\* pulldown_cmark::html::push_html over Parser::new_ext: the HTML the library
\* produces for a markdown text, an uninterpreted function of that text
push_html(md) == [html_of |-> md]

\* The match at post.rs lines 42 to 47
set_var_first_wins(post, k, v) ==
    IF k = KeyTitle /\ post.title = <<>> THEN [post EXCEPT !.title = v]
    ELSE IF k = KeyDescription /\ post.description = <<>>
    THEN [post EXCEPT !.description = v]
    ELSE IF k = KeySlug /\ post.slug = <<>> THEN [post EXCEPT !.slug = v]
    ELSE post
set_var(post, k, v) ==
    IF k = KeyTitle THEN [post EXCEPT !.title = v]
    ELSE IF k = KeyDescription THEN [post EXCEPT !.description = v]
    ELSE IF k = KeySlug THEN [post EXCEPT !.slug = v]
    ELSE post

\* The loop at post.rs lines 39 to 48: Some(post) when every line splits at a
\* colon, None when split_once(":").unwrap() panics
RECURSIVE parse_vars(_, _)
parse_line(post, kv, rest) ==
    IF ~kv.some THEN None
    ELSE parse_vars(set_var(post, kv.val.k, trim(kv.val.v)), rest)
parse_vars(post, ls) ==
    IF ls = <<>> THEN Some(post)
    ELSE parse_line(post, split_once(Head(ls), Colon), Tail(ls))

\* What from_file ends with: Ok(post), Err(io error kind), or a panic. vars and
\* md are its locals: the front-matter block and the text for the converter.
LoadOk(post, vars, md) ==
    [kind |-> "Ok", post |-> post, err |-> "", vars |-> vars, md |-> md]
LoadErr(e) ==
    [kind |-> "Err", post |-> Post_new, err |-> e, vars |-> <<>>, md |-> <<>>]
LoadPanic(where, vars, md) ==
    [kind |-> "Panic", post |-> Post_new, err |-> where, vars |-> vars, md |-> md]

\* post.rs lines 50 to 62 once the loop has run: the body replaces the content,
\* is converted to HTML, and the post is returned
finish_front_matter(parsed, vars, content) ==
    IF ~parsed.some THEN LoadPanic("split_once", vars, content)
    ELSE LoadOk([parsed.val EXCEPT !.content = push_html(content)], vars, content)

\* post.rs lines 35 to 48: the two pop_front().unwrap() and the loop
parse_front_matter(post, results) ==
    IF Len(results) < 1 THEN LoadPanic("pop_front", <<>>, <<>>)
    ELSE IF Len(results) < 2 THEN LoadPanic("pop_front", results[1], <<>>)
    ELSE finish_front_matter(parse_vars(post, lines(results[1])),
                             results[1], results[2])

\* post.rs lines 33 to 62, post holding the url and the file's text
parse_post(post) ==
    IF starts_with(post.content, Delim)
    THEN parse_front_matter(post, skip(splitn(3, post.content, Delim), 1))
    ELSE LoadOk([post EXCEPT !.content = push_html(post.content)],
                <<>>, post.content)

\* post.rs lines 24 to 31, url the outcome of strip_suffix; disk is the state of
\* the file system at path: open and read are "Ok" or the kind of the io::Error,
\* data the file's text
open_and_read(url, disk) ==
    IF ~url.some THEN LoadPanic("strip_suffix", <<>>, <<>>)
    ELSE IF disk.open # "Ok" THEN LoadErr(disk.open)
    ELSE IF disk.read # "Ok" THEN LoadErr(disk.read)
    ELSE parse_post([Post_new EXCEPT !.url = url.val, !.content = disk.data])

\* Post::from_file(path)
from_file(path, disk) == open_and_read(strip_suffix(path, MdSuffix), disk)

(***************************************************************************)
(* tide::Response, as far as the routes and the middleware use it.         *)
(***************************************************************************)
NoBody == [kind |-> "empty", template |-> "", data |-> <<>>]

\* Response::new(status): no error, an empty body
Response_new(status) ==
    [status |-> status, error |-> "None", body |-> NoBody,
     mime |-> "application/octet-stream"]

\* The response tide builds when an endpoint returns Err(io::Error): status 500,
\* the error kept for downcast_error
Response_from_error(e) == [Response_new(500) EXCEPT !.error = e]

\* StatusCode::is_success: 2xx
is_success_below_500(status) == status < 500
is_success(status) == status >= 200 /\ status <= 299

\* StatusCode::canonical_reason, for the statuses the model produces
canonical_reason(status) ==
    CASE status = 200 -> "OK"
      [] status = 403 -> "Forbidden"
      [] status = 404 -> "Not Found"
      [] status = 405 -> "Method Not Allowed"
      [] status = 500 -> "Internal Server Error"

(***************************************************************************)
(* registry.rs: State and the thread-local REGISTRY.                       *)
(***************************************************************************)
\* State::render_body: the named template rendered with data becomes the body,
\* with MIME type text/html
render_body(response, name, data) ==
    [response EXCEPT !.body = [kind |-> "template", template |-> name, data |-> data],
                     !.mime = "text/html"]

\* State::render: a 200 response with the rendered body
render(name, data) == render_body(Response_new(200), name, data)

(***************************************************************************)
(* What an endpoint or a middleware ends with: a response, or a panic.     *)
(* used tells whether it reached REGISTRY.with.                            *)
(***************************************************************************)
NoLoad == LoadErr("NotLoaded")
NoResponse == Response_new(0)
Returned(res, used, out) ==
    [kind |-> "Response", res |-> res, used |-> used, out |-> out]
Panicked(used, out) ==
    [kind |-> "Panic", res |-> NoResponse, used |-> used, out |-> out]

(***************************************************************************)
(* routes.rs                                                               *)
(***************************************************************************)
PostsDir == <<"p", "o", "s", "t", "s", "/">>
Slash == <<"/">>
PathIndex == PostsDir \o <<"i", "n", "d", "e", "x">> \o MdSuffix
PathAbout == PostsDir \o <<"a", "b", "o", "u", "t">> \o MdSuffix
PathTodo == PostsDir \o <<"t", "o", "d", "o">> \o MdSuffix

\* format!("posts/{}/{}/{}/{}.md", year, month, day, id)
PostPath(year, month, day, id) ==
    PostsDir \o year \o Slash \o month \o Slash \o day \o Slash \o id \o MdSuffix

\* render_markdown(url); ready: REGISTRY.with finds or can build this thread's
\* State
render_post(out, ready) ==
    IF out.kind = "Panic" THEN Panicked(FALSE, out)
    ELSE IF out.kind = "Err" THEN Returned(Response_from_error(out.err), FALSE, out)
    ELSE IF ready THEN Returned(render("post.html", out.post), TRUE, out)
    ELSE Panicked(TRUE, out)
render_markdown(url, disk, ready) == render_post(from_file(url, disk), ready)

health_check == Returned(Response_new(200), FALSE, NoLoad)
index(disk, ready) == render_markdown(PathIndex, disk, ready)
about(disk, ready) == render_markdown(PathAbout, disk, ready)
todo(disk, ready) == render_markdown(PathTodo, disk, ready)
get_post(req, disk, ready) ==
    render_markdown(PostPath(req.year, req.month, req.day, req.id), disk, ready)

\* The file path a request's route hands to Post::from_file
PathOf(req) ==
    CASE req.route = "index" -> PathIndex
      [] req.route = "about" -> PathAbout
      [] req.route = "todo" -> PathTodo
      [] req.route = "get_post" -> PostPath(req.year, req.month, req.day, req.id)
      [] OTHER -> <<>>

\* The router of configure, with the static files of main.rs and tide's answer
\* to an unmatched path: req.collab is what those collaborators respond
endpoint(req, ready) ==
    CASE req.route = "index" -> index(req.disk, ready)
      [] req.route = "about" -> about(req.disk, ready)
      [] req.route = "todo" -> todo(req.disk, ready)
      [] req.route = "get_post" -> get_post(req, req.disk, ready)
      [] req.route = "health_check" -> health_check
      [] OTHER -> Returned(req.collab, FALSE, NoLoad)

(***************************************************************************)
(* errors.rs                                                               *)
(***************************************************************************)
\* error_handler lines 8 to 13: the status after the NotFound mapping
error_status_unmapped(res) == res.status
error_status_all_404(res) == IF res.error # "None" THEN 404 ELSE res.status
error_status(res) == IF res.error = "NotFound" THEN 404 ELSE res.status

\* format!("{} {}", status as u16, status.canonical_reason())
error_content(status) == ToString(status) \o " " \o canonical_reason(status)

\* error_handler lines 13 to 23, res carrying the mapped status
error_page(res, ready) ==
    IF ~is_success(res.status)
    THEN IF ready
         THEN Returned(render_body(res, "post.html",
                                   [content |-> error_content(res.status)]),
                       TRUE, NoLoad)
         ELSE Panicked(TRUE, NoLoad)
    ELSE Returned(res, FALSE, NoLoad)

\* error_handler(res)
error_handler(res, ready) ==
    error_page([res EXCEPT !.status = error_status(res)], ready)

\* After(error_handler) around the endpoint: the handler runs on the endpoint's
\* response; a panic in the endpoint unwinds past it
after(e, ready) ==
    IF e.kind = "Response" THEN
        [outer |-> error_handler(e.res, ready), inner |-> e]
    ELSE [outer |-> e, inner |-> e]

(***************************************************************************)
(* The inputs: the state of the file system at a request's path, and the   *)
(* requests.                                                               *)
(***************************************************************************)
Disk(data) == [open |-> "Ok", read |-> "Ok", data |-> data]
OpenFails(e) == [open |-> e, read |-> "Ok", data |-> <<>>]
ReadFails(e) == [open |-> "Ok", read |-> e, data |-> <<>>]
NoDisk == OpenFails("Unused")

\* File::open fails: ENOENT, EACCES.  read_to_string fails: the bytes are not
\* UTF-8, the path is a directory.
FailingDisks ==
    {OpenFails("NotFound"), OpenFails("PermissionDenied"),
     ReadFails("InvalidData"), ReadFails("IsADirectory")}

\* Pieces of front-matter text
LineTitleA == KeyTitle \o <<":", " ", "a", "\n">>
LineTitleB == KeyTitle \o <<":", "b", " ", "\n">>
LineSlugC == KeySlug \o <<":", " ", "c", "\n">>
LineDescD == KeyDescription \o <<":", "d", "\n">>
LineOther == <<"x", ":", "y", "\n">>
LineBlank == <<"\n">>
LineNoColon == <<"j", "u", "s", "t", "\n">>
LineSpaceKey == <<" ">> \o KeyTitle \o <<":", "z", "\n">>
LineTwoColons == KeyTitle \o <<":", "x", ":", "y", "\n">>
LineUnterminated == KeySlug \o <<":", "q">>
LineCrLf == KeyDescription \o <<":", "\t", "w", "\r", "\n">>
LineFrags ==
    {LineTitleA, LineTitleB, LineSlugC, LineDescD, LineOther, LineBlank,
     LineNoColon, LineSpaceKey, LineTwoColons, LineUnterminated, LineCrLf}

BodyText == <<"#", " ", "B", "\n">>
BodyWithDelim == <<"x", "\n">> \o Delim \o <<"y">>

\* The front-matter blocks: up to MaxLines pieces, concatenated
Blocks ==
    {Flatten(ls) : ls \in UNION {[1..n -> LineFrags] : n \in 0..MaxLines}}

\* What follows the block: nothing, or the closing delimiter and a body
Tails == {<<>>, Delim, Delim \o BodyText, Delim \o BodyWithDelim}

\* Files that open with the delimiter
FrontMatterFiles == {Delim \o b \o t : b \in Blocks, t \in Tails}

\* Files that do not: empty, a plain body, and near misses of the delimiter
PlainFiles ==
    {<<>>, BodyText, <<"-", "-", "-">>,
     <<"-">> \o Delim \o LineTitleA \o Delim,
     <<" ">> \o Delim \o LineTitleA \o Delim \o BodyText,
     <<"-", "-", "\n">> \o LineTitleA \o Delim \o BodyText,
     <<"-", "-", "-", "\r", "\n">> \o LineTitleA \o Delim,
     BodyWithDelim}

LoaderDisks == FailingDisks \cup {Disk(f) : f \in FrontMatterFiles \cup PlainFiles}

\* The files the server model serves
ServerDisks ==
    FailingDisks \cup
    {Disk(BodyText),
     Disk(Delim \o LineTitleA \o LineSlugC \o Delim \o BodyText),
     Disk(Delim \o LineTitleA),
     Disk(Delim \o LineNoColon \o Delim \o BodyText)}

\* Path parameters of /posts/:year/:month/:day/:id
Years == {<<"2", "0", "2", "4">>}
Months == {<<"0", "1">>}
Days == {<<"0", "1">>}
Ids == {<<"h", "e", "l", "l", "o">>, <<"a", ".", "m", "d">>}

Request(route, id, disk, collab) ==
    [route |-> route, year |-> <<"2", "0", "2", "4">>, month |-> <<"0", "1">>,
     day |-> <<"0", "1">>, id |-> id, disk |-> disk, collab |-> collab]
NoRequest == Request("none", <<>>, NoDisk, NoResponse)

\* serve_dir and serve_file answer 200, 403 or 404, or fail with an io::Error;
\* tide answers 404 to an unmatched path and 405 to an unmatched method
CollabResponses ==
    {Response_new(st) : st \in {200, 403, 404, 405}}
        \cup {Response_from_error("PermissionDenied")}

MarkdownRequests(disks) ==
    {Request(r, <<>>, d, NoResponse) : r \in {"index", "about", "todo"}, d \in disks}
        \cup {[Request("get_post", i, d, NoResponse)
                  EXCEPT !.year = y, !.month = m, !.day = dd] :
                  y \in Years, m \in Months, dd \in Days, i \in Ids, d \in disks}
OtherRequests ==
    {Request("health_check", <<>>, NoDisk, NoResponse)}
        \cup {Request("collaborator", <<>>, NoDisk, c) : c \in CollabResponses}
Requests == MarkdownRequests(ServerDisks) \cup OtherRequests
LoadRequests == {Request("index", <<>>, d, NoResponse) : d \in LoaderDisks}

(***************************************************************************)
(* The state.                                                              *)
(***************************************************************************)
VARIABLES
    proc,       \* main: "init", "listening", "exited" or "aborted"
    template,   \* client/dist/post.html: "present" or "missing"
    registry,   \* per thread, the thread-local REGISTRY: "uninit" or "loaded"
    conn        \* per connection, the request being handled and its outcome

vars == <<proc, template, registry, conn>>

Threads == 1..NumThreads
Conns == 1..MaxConns

Idle ==
    [pc |-> "idle", req |-> NoRequest, out |-> NoLoad, inner |-> NoResponse,
     res |-> NoResponse]

Init ==
    /\ proc = "init"
    /\ template \in {"present", "missing"}
    /\ registry = [t \in Threads |-> "uninit"]
    /\ conn = [c \in Conns |-> Idle]

\* main up to app.listen: nothing touches REGISTRY
Start ==
    /\ proc = "init"
    /\ proc' = "listening"
    /\ UNCHANGED <<template, registry, conn>>

\* main returns Err: serve_dir, serve_file or listen failed
StartFail ==
    /\ proc = "init"
    /\ proc' = "exited"
    /\ UNCHANGED <<template, registry, conn>>

\* A request arrives and is routed
Accept(c, req) ==
    /\ proc = "listening"
    /\ conn[c].pc = "idle"
    /\ conn' = [conn EXCEPT ![c] = [Idle EXCEPT !.pc = "accepted", !.req = req]]
    /\ UNCHANGED <<proc, template, registry>>

\* thread_local!: the first REGISTRY.with on a thread runs State::default,
\* whose register_template_file(..).unwrap() panics when the file is missing
registry_ready(t) == registry[t] = "loaded" \/ template = "present"

\* Thread t runs the request's endpoint and then the After middleware. A panic
\* unwinds the task; whether the process survives it depends on the build
\* (panic = "abort") and on the executor.
Finish(c, t, ready, h) ==
    /\ registry' = [registry EXCEPT
                      ![t] = IF (h.inner.used \/ h.outer.used) /\ ready
                             THEN "loaded" ELSE @]
    /\ conn' = [conn EXCEPT
                  ![c] = [pc |-> IF h.outer.kind = "Response" THEN "done"
                                 ELSE "panicked",
                          req |-> conn[c].req, out |-> h.inner.out,
                          inner |-> h.inner.res, res |-> h.outer.res]]
    /\ proc' \in IF h.outer.kind = "Response" THEN {"listening"}
                  ELSE {"listening", "aborted"}

Handle(c, t) ==
    /\ proc = "listening"
    /\ conn[c].pc = "accepted"
    /\ Finish(c, t, registry_ready(t),
              after(endpoint(conn[c].req, registry_ready(t)), registry_ready(t)))
    /\ UNCHANGED template

\* The response is written to the connection
Respond(c) ==
    /\ proc = "listening"
    /\ conn[c].pc = "done"
    /\ conn' = [conn EXCEPT ![c] = Idle]
    /\ UNCHANGED <<proc, template, registry>>

\* A panicked task's connection is closed without a response
Drop(c) ==
    /\ proc = "listening"
    /\ conn[c].pc = "panicked"
    /\ conn' = [conn EXCEPT ![c] = Idle]
    /\ UNCHANGED <<proc, template, registry>>

Next ==
    \/ Start
    \/ StartFail
    \/ \E c \in Conns, req \in Requests : Accept(c, req)
    \/ \E c \in Conns, t \in Threads : Handle(c, t)
    \/ \E c \in Conns : Respond(c)
    \/ \E c \in Conns : Drop(c)

Spec == Init /\ [][Next]_vars

(***************************************************************************)
(* The loader alone: one request for posts/index.md, the file drawn from   *)
(* LoaderDisks, on a listening server.                                     *)
(***************************************************************************)
InitLoad ==
    /\ proc = "listening"
    /\ template = "present"
    /\ registry = [t \in Threads |-> "uninit"]
    /\ \E req \in LoadRequests :
          conn = [c \in Conns |-> IF c = 1 THEN [Idle EXCEPT !.pc = "accepted",
                                                             !.req = req]
                                  ELSE Idle]

NextLoad ==
    \/ \E c \in Conns, t \in Threads : Handle(c, t)
    \/ \E c \in Conns : Respond(c)
    \/ \E c \in Conns : Drop(c)

SpecLoad == InitLoad /\ [][NextLoad]_vars

(***************************************************************************)
(* Vocabulary of the properties, stated on the file's text itself.         *)
(***************************************************************************)
Finished(c) == conn[c].pc \in {"done", "panicked"}
Markdown(c) == conn[c].req.route \in {"index", "about", "todo", "get_post"}
Readable(c) == conn[c].req.disk.open = "Ok" /\ conn[c].req.disk.read = "Ok"
TextOf(c) == conn[c].req.disk.data

\* The text begins with the four characters - - - \n
HasPrefix(d) ==
    Len(d) >= 4 /\ d[1] = "-" /\ d[2] = "-" /\ d[3] = "-" /\ d[4] = "\n"
\* The text after the opening delimiter
Rest(d) == SubSeq(d, 5, Len(d))
\* The positions in d where a delimiter starts
DelimsIn(d) ==
    {i \in 1..(Len(d) - 3) :
        d[i] = "-" /\ d[i + 1] = "-" /\ d[i + 2] = "-" /\ d[i + 3] = "\n"}
Least(S) == CHOOSE i \in S : \A j \in S : i <= j
Greatest(S) == CHOOSE i \in S : \A j \in S : i >= j
HasClosing(d) == HasPrefix(d) /\ DelimsIn(Rest(d)) # {}
\* The front-matter block and the body of a text with both delimiters
BlockOf(d) == SubSeq(Rest(d), 1, Least(DelimsIn(Rest(d))) - 1)
BodyOf(d) == SubSeq(Rest(d), Least(DelimsIn(Rest(d))) + 4, Len(Rest(d)))

ColonsIn(l) == {j \in 1..Len(l) : l[j] = ":"}
Blank(l) == \A j \in 1..Len(l) : l[j] \in WhiteSpace
KeyIn(l) == SubSeq(l, 1, Least(ColonsIn(l)) - 1)
\* The value of a line, without its surrounding whitespace
ValueIn(l) ==
    LET v == SubSeq(l, Least(ColonsIn(l)) + 1, Len(l))
        inked == {j \in 1..Len(v) : v[j] \notin WhiteSpace}
    IN  IF inked = {} THEN <<>> ELSE SubSeq(v, Least(inked), Greatest(inked))
\* The value of the last line of ls whose key is key, or the empty string
LastValue(ls, key) ==
    LET at == {i \in 1..Len(ls) : ColonsIn(ls[i]) # {} /\ KeyIn(ls[i]) = key}
    IN  IF at = {} THEN <<>> ELSE ValueIn(ls[Greatest(at)])

ErrorPage(text) ==
    [kind |-> "template", template |-> "post.html", data |-> [content |-> text]]

(***************************************************************************)
(* C1: a request whose source file does not exist fails in from_file with  *)
(* NotFound, and once error_handler has run the response has status 404    *)
(* and the post.html rendering of content = "404 Not Found" as its body.   *)
(***************************************************************************)
C1_MissingFileIs404 ==
    \A c \in Conns :
        (Finished(c) /\ Markdown(c) /\ conn[c].req.disk.open = "NotFound") =>
            /\ conn[c].out.kind = "Err"
            /\ conn[c].out.err = "NotFound"
            /\ conn[c].pc = "done" =>
                  /\ conn[c].res.status = 404
                  /\ conn[c].res.body = ErrorPage("404 Not Found")
                  /\ conn[c].res.mime = "text/html"

C1_Witness ==
    \E c \in Conns :
        /\ conn[c].pc = "done"
        /\ conn[c].req.route = "get_post"
        /\ conn[c].req.disk.open = "NotFound"
        /\ conn[c].inner.status = 500
        /\ conn[c].res.status = 404

(***************************************************************************)
(* C2, as the spec states it: a load failure is classified by where it     *)
(* occurs: every failure to open the file is NotFound and ends as 404,     *)
(* every failure to read the opened file ends as 500, and no load failure  *)
(* ends with another status.                                               *)
(***************************************************************************)
C2_ClassifiedByPlace ==
    \A c \in Conns :
        (conn[c].pc = "done" /\ Markdown(c) /\ ~Readable(c)) =>
            /\ conn[c].out.kind = "Err"
            /\ conn[c].req.disk.open # "Ok" =>
                  /\ conn[c].out.err = "NotFound"
                  /\ conn[c].res.status = 404
            /\ conn[c].req.disk.open = "Ok" => conn[c].res.status = 500

(***************************************************************************)
(* C2, amended: a load failure is classified by the kind of its I/O error: *)
(* from_file returns the error of the failed open or read unchanged; kind  *)
(* NotFound ends as 404 and every other kind, a file that exists but       *)
(* cannot be opened included, ends as 500, each with its error page.       *)
(***************************************************************************)
C2_ClassifiedByKind ==
    \A c \in Conns :
        (Finished(c) /\ Markdown(c) /\ ~Readable(c)) =>
            /\ conn[c].out.kind = "Err"
            /\ conn[c].out.err =
                  IF conn[c].req.disk.open # "Ok" THEN conn[c].req.disk.open
                  ELSE conn[c].req.disk.read
            /\ conn[c].inner.error = conn[c].out.err
            /\ conn[c].pc = "done" =>
                  /\ conn[c].out.err = "NotFound" =>
                        /\ conn[c].res.status = 404
                        /\ conn[c].res.body = ErrorPage("404 Not Found")
                  /\ conn[c].out.err # "NotFound" =>
                        /\ conn[c].res.status = 500
                        /\ conn[c].res.body =
                              ErrorPage("500 Internal Server Error")

C2_Witness ==
    \E c \in Conns :
        /\ conn[c].pc = "done"
        /\ Markdown(c)
        /\ conn[c].req.disk.open = "PermissionDenied"
        /\ conn[c].res.status = 500

(***************************************************************************)
(* C3: a file that starts with the delimiter but has no closing delimiter, *)
(* or has a non-blank front-matter line without a colon, makes from_file   *)
(* return a MalformedFrontMatter error, which becomes a 500 error page;    *)
(* the handler does not crash and the server goes on serving.              *)
(***************************************************************************)
StructurallyInvalid(d) ==
    /\ HasPrefix(d)
    /\ \/ ~HasClosing(d)
       \/ \E i \in 1..Len(lines(BlockOf(d))) :
             /\ ~Blank(lines(BlockOf(d))[i])
             /\ ColonsIn(lines(BlockOf(d))[i]) = {}

C3_MalformedIsReported ==
    \A c \in Conns :
        (Finished(c) /\ Markdown(c) /\ Readable(c) /\ template = "present"
            /\ StructurallyInvalid(TextOf(c))) =>
            /\ conn[c].pc = "done"
            /\ conn[c].out.kind = "Err"
            /\ conn[c].out.err = "MalformedFrontMatter"
            /\ conn[c].res.status = 500
            /\ conn[c].res.body = ErrorPage("500 Internal Server Error")
            /\ proc = "listening"

(***************************************************************************)
(* C4: a readable file whose text does not begin with the four characters  *)
(* of the delimiter loads successfully, its whole text unchanged is what   *)
(* the markdown converter gets, and title, description and slug are empty. *)
(***************************************************************************)
C4_NoPrefixIsAllBody ==
    \A c \in Conns :
        (Finished(c) /\ Markdown(c) /\ Readable(c) /\ ~HasPrefix(TextOf(c))) =>
            /\ conn[c].out.kind = "Ok"
            /\ conn[c].out.md = TextOf(c)
            /\ conn[c].out.post.content = [html_of |-> TextOf(c)]
            /\ conn[c].out.post.title = <<>>
            /\ conn[c].out.post.description = <<>>
            /\ conn[c].out.post.slug = <<>>

C4_Witness ==
    \E c \in Conns :
        /\ conn[c].pc = "done"
        /\ Readable(c)
        /\ ~HasPrefix(TextOf(c))
        /\ DelimsIn(TextOf(c)) # {}
        /\ conn[c].out.kind = "Ok"
        /\ conn[c].res.status = 200
        /\ conn[c].res.body.data.content = [html_of |-> TextOf(c)]

(***************************************************************************)
(* C5: once error_handler has run, a response whose status is not 2xx has  *)
(* as its body the post.html rendering of content = "<status> <canonical   *)
(* reason>" for that status, with MIME type text/html, whichever route or  *)
(* collaborator produced the response.                                     *)
(***************************************************************************)
ReasonLine(status) ==
    CASE status = 403 -> "403 Forbidden"
      [] status = 404 -> "404 Not Found"
      [] status = 405 -> "405 Method Not Allowed"
      [] status = 500 -> "500 Internal Server Error"
      [] OTHER -> "unknown"

C5_ErrorPageForEveryFailure ==
    \A c \in Conns :
        (conn[c].pc = "done"
            /\ ~(conn[c].res.status \in 200..299)) =>
            /\ conn[c].res.body = ErrorPage(ReasonLine(conn[c].res.status))
            /\ conn[c].res.mime = "text/html"

C5_Witness ==
    \E c \in Conns :
        /\ conn[c].pc = "done"
        /\ conn[c].req.route = "collaborator"
        /\ conn[c].res.status = 405
        /\ conn[c].inner.body = NoBody
        /\ conn[c].res.body = ErrorPage("405 Method Not Allowed")

(***************************************************************************)
(* C6: post.html is loaded exactly once at process startup, before any     *)
(* request is accepted; if the load fails the process stops without        *)
(* serving a request; if it succeeds every later render succeeds.          *)
(***************************************************************************)
LoadedThreads == {t \in Threads : registry[t] = "loaded"}

C6_LoadedOnceAtStartup ==
    /\ (\E c \in Conns : conn[c].pc # "idle") => LoadedThreads # {}
    /\ Cardinality(LoadedThreads) <= 1
    /\ template = "missing" => \A c \in Conns : conn[c].pc = "idle"
    /\ template = "present" =>
          \A c \in Conns : conn[c].out.kind = "Ok" => conn[c].pc # "panicked"

(***************************************************************************)
(* C7: for a well-formed front-matter block (every non-blank line has a    *)
(* colon) the load succeeds, and title, description and slug are the same  *)
(* with the blank lines removed and, when the keys are distinct, with the  *)
(* lines in another order.                                                 *)
(***************************************************************************)
WellFormed(d) ==
    /\ HasClosing(d)
    /\ \A i \in 1..Len(lines(BlockOf(d))) :
          Blank(lines(BlockOf(d))[i]) \/ ColonsIn(lines(BlockOf(d))[i]) # {}

RECURSIVE NonBlank(_)
NonBlank(ls) ==
    IF ls = <<>> THEN <<>>
    ELSE IF Blank(Head(ls)) THEN NonBlank(Tail(ls))
    ELSE <<Head(ls)>> \o NonBlank(Tail(ls))
RECURSIVE Reversed(_)
Reversed(ls) ==
    IF ls = <<>> THEN <<>> ELSE Reversed(Tail(ls)) \o <<Head(ls)>>
RECURSIVE Joined(_)
Joined(ls) ==
    IF ls = <<>> THEN <<>> ELSE Head(ls) \o <<"\n">> \o Joined(Tail(ls))
DistinctKeys(ls) ==
    \A i, j \in 1..Len(ls) : i # j => KeyIn(ls[i]) # KeyIn(ls[j])
\* The file rebuilt around other front-matter lines
WithLines(d, ls) == Delim \o Joined(ls) \o Delim \o BodyOf(d)
Fields(out) == <<out.kind, out.post.title, out.post.description, out.post.slug>>
SameFields(out, d) == Fields(out) = Fields(from_file(PathIndex, Disk(d)))

C7_OrderAndBlankLinesIrrelevant ==
    \A c \in Conns :
        (Finished(c) /\ Markdown(c) /\ Readable(c) /\ WellFormed(TextOf(c))) =>
            /\ conn[c].out.kind = "Ok"
            /\ SameFields(conn[c].out,
                          WithLines(TextOf(c), NonBlank(lines(BlockOf(TextOf(c))))))
            /\ DistinctKeys(NonBlank(lines(BlockOf(TextOf(c))))) =>
                  SameFields(conn[c].out,
                             WithLines(TextOf(c),
                                       Reversed(NonBlank(lines(BlockOf(TextOf(c)))))))

(***************************************************************************)
(* C8: a Document loaded through any route has a non-empty url, the file   *)
(* path handed to from_file without its trailing ".md";                    *)
(* posts/2024/01/01/hello.md gives posts/2024/01/01/hello.                 *)
(***************************************************************************)
HelloUrl ==
    <<"p", "o", "s", "t", "s", "/", "2", "0", "2", "4", "/", "0", "1", "/",
      "0", "1", "/", "h", "e", "l", "l", "o">>

C8_UrlIsPathWithoutMd ==
    \A c \in Conns :
        (Finished(c) /\ Markdown(c) /\ conn[c].out.kind = "Ok") =>
            /\ conn[c].out.post.url # <<>>
            /\ conn[c].out.post.url \o <<".", "m", "d">> = PathOf(conn[c].req)
            /\ (conn[c].req.route = "get_post"
                  /\ conn[c].req.id = <<"h", "e", "l", "l", "o">>) =>
                  conn[c].out.post.url = HelloUrl
            /\ conn[c].pc = "done" =>
                  conn[c].res.body.data.url = conn[c].out.post.url

C8_Witness ==
    \E c \in Conns :
        /\ conn[c].pc = "done"
        /\ conn[c].req.route = "get_post"
        /\ conn[c].req.id = <<"a", ".", "m", "d">>
        /\ conn[c].out.kind = "Ok"
        /\ conn[c].res.status = 200
        /\ conn[c].res.body.data.url = PostsDir \o
              <<"2", "0", "2", "4", "/", "0", "1", "/", "0", "1", "/",
                "a", ".", "m", "d">>

(***************************************************************************)
(* C9: for a file that starts with the delimiter and has a closing one,    *)
(* the front-matter block is the text between the opening delimiter and    *)
(* the next occurrence of the delimiter and the body is everything after   *)
(* that occurrence: a later delimiter stays in the body text the markdown  *)
(* converter gets.                                                         *)
(***************************************************************************)
C9_SplitAtTwoBoundaries ==
    \A c \in Conns :
        (Finished(c) /\ Markdown(c) /\ Readable(c) /\ HasClosing(TextOf(c))) =>
            /\ conn[c].out.kind \in {"Ok", "Panic"}
            /\ conn[c].out.vars = BlockOf(TextOf(c))
            /\ conn[c].out.md = BodyOf(TextOf(c))
            /\ conn[c].out.kind = "Ok" =>
                  conn[c].out.post.content = [html_of |-> BodyOf(TextOf(c))]

C9_Witness ==
    \E c \in Conns :
        /\ conn[c].pc = "done"
        /\ Readable(c)
        /\ HasClosing(TextOf(c))
        /\ conn[c].out.kind = "Ok"
        /\ conn[c].out.vars # <<>>
        /\ DelimsIn(conn[c].out.md) # {}
        /\ conn[c].res.body.data.content = [html_of |-> conn[c].out.md]

(***************************************************************************)
(* C10: when every line of the front-matter block has a colon, the load    *)
(* succeeds and each of title, description and slug is the trimmed value   *)
(* of the last line whose key (the text before the first colon) is exactly *)
(* that name, or empty when no line has that key; other keys change        *)
(* nothing.                                                                *)
(***************************************************************************)
AllColons(d) ==
    /\ HasClosing(d)
    /\ \A i \in 1..Len(lines(BlockOf(d))) : ColonsIn(lines(BlockOf(d))[i]) # {}

C10_LastWriteWins ==
    \A c \in Conns :
        (Finished(c) /\ Markdown(c) /\ Readable(c) /\ AllColons(TextOf(c))) =>
            /\ conn[c].out.kind = "Ok"
            /\ conn[c].out.post.title =
                  LastValue(lines(BlockOf(TextOf(c))), KeyTitle)
            /\ conn[c].out.post.description =
                  LastValue(lines(BlockOf(TextOf(c))), KeyDescription)
            /\ conn[c].out.post.slug =
                  LastValue(lines(BlockOf(TextOf(c))), KeySlug)

C10_Witness ==
    \E c \in Conns :
        /\ conn[c].pc = "done"
        /\ TextOf(c) = Delim \o LineTitleA \o LineTitleB \o Delim \o BodyText
        /\ conn[c].out.post.title = <<"b">>
        /\ conn[c].res.body.data.title = <<"b">>

=============================================================================
